---- MODULE Spec2Model ----
\* enlil.py: manifest-driven synchronisation of the ENLIL images, pruning,
\* staging and video assembly, as a state machine over the file system, the
\* remote server and the position of one run of main().
EXTENDS Integers, Sequences, FiniteSets, TLC

\* ------------------------------------------------------------------ bounds
\* Longest manifest (number of entries).
MaxLen == 2
\* Number of runs of main().
MaxRuns == 2
\* Number of times the remote manifest changes.
MaxUpdates == 1

\* ------------------------------------------------------- names and strings
\* File names and URLs are sequences of one-character strings, so that
\* startswith, basename, glob suffixes, sorting and number formatting are
\* computed on the characters.
Alphabet ==
  <<"-", ".", "/", "0", "1", "2", "3", "4", "5", "6", "7", "8", "9", "_",
    "a", "c", "e", "g", "i", "j", "l", "m", "n", "o", "p", "s", "t">>

Ord(c) == CHOOSE i \in DOMAIN Alphabet : Alphabet[i] = c

Digit == <<"0", "1", "2", "3", "4", "5", "6", "7", "8", "9">>

StartsWith(s, p) == Len(s) >= Len(p) /\ SubSeq(s, 1, Len(p)) = p

EndsWith(s, p) == Len(s) >= Len(p) /\ SubSeq(s, Len(s) - Len(p) + 1, Len(s)) = p

\* str / Path ordering: code point by code point, a proper prefix first.
LexLess(a, b) ==
  \E k \in 1..(Len(a) + 1) :
    /\ k <= Len(b)
    /\ \A j \in 1..(k - 1) : a[j] = b[j]
    /\ (k = Len(a) + 1 \/ Ord(a[k]) < Ord(b[k]))

RECURSIVE SortedSeq(_)
SortedSeq(S) ==
  IF S = {} THEN <<>>
  ELSE LET m == CHOOSE x \in S : \A y \in S \ {x} : LexLess(x, y)
       IN <<m>> \o SortedSeq(S \ {m})

LastSlash(s) ==
  LET at == {i \in 1..Len(s) : s[i] = "/"}
  IN IF at = {} THEN 0 ELSE CHOOSE i \in at : \A j \in at : j <= i

\* os.path.basename: what follows the last slash.
Basename(s) == SubSeq(s, LastSlash(s) + 1, Len(s))

RECURSIVE StripSlashes(_)
StripSlashes(s) ==
  IF Len(s) > 1 /\ s[Len(s)] = "/" THEN StripSlashes(SubSeq(s, 1, Len(s) - 1))
  ELSE s

\* pathlib's Path(url).name: the last component, trailing slashes dropped.
PathName(s) == Basename(StripSlashes(s))

\* The tracked prefix of purge and the suffixes of the globs.
ENLIL_COM == <<"e", "n", "l", "i", "l", "_", "c", "o", "m">>
ENLIL_ == <<"e", "n", "l", "i", "l", "_">>
JPG == <<".", "j", "p", "g">>
LINK_PREFIX == <<"e", "n", "l", "i", "l", "-">>
LATEST == <<"l", "a", "t", "e", "s", "t", ".", "p", "n", "g">>

Img1 == ENLIL_COM \o <<"1">> \o JPG
Img2 == ENLIL_COM \o <<"2">> \o JPG
Img9 == ENLIL_COM \o <<"9">> \o JPG
Other == <<"a">> \o JPG

Url(n) == <<"/", "p", "/">> \o n

Urls == {Url(Img1), Url(Img2)}

\* What target_dir may hold before the first run.
InitNames == {Img1, Img9, Other}

Manifests == UNION {[1..n -> Urls] : n \in 0..MaxLen}

\* counter(): f'{cnt:06d}'.
WIDTH == 6
START == 1

RECURSIVE Decimal(_)
Decimal(n) == IF n < 10 THEN <<Digit[n + 1]>> ELSE Decimal(n \div 10) \o <<Digit[(n % 10) + 1]>>

RECURSIVE ZeroPad(_, _)
ZeroPad(s, w) == IF Len(s) >= w THEN s ELSE ZeroPad(<<"0">> \o s, w)

counter(i) == ZeroPad(Decimal(START + i - 1), WIDTH)

LinkName(i) == LINK_PREFIX \o counter(i) \o JPG

\* ------------------------------------------------------------------- state
VARIABLES
  files,       \* names of the files in target_dir
  enlil_file,  \* the manifest on disk: [exists, valid, data]; valid: it parses
  etag_file,   \* the .etag sidecar: 0 when absent, else the stored tag
  video,       \* the published video: 0 when absent, else the run that rendered it
  workdir,     \* target_dir/_workdir: [exists, links]
  remote,      \* the server's manifest: [data, tag]
  updates,     \* how many times the remote manifest changed
  pc,          \* position of the current run of main()
  runNo,       \* number of the current run
  force,       \* opts.force
  idx,         \* position of retrieve_files' loop over the manifest
  downloads,   \* retrieve_files' list of retrieve_image results
  exc,         \* an exception is propagating out of animate's with block
  err,         \* the error that ended the run ("" when none)
  obs,         \* what the current run did so far
  lastSynced,  \* the manifest of the last completed synchronization
  owed         \* the run that aborted after persisting manifest and tag (0: none)

vars ==
  <<files, enlil_file, etag_file, video, workdir, remote, updates, pc,
    runNo, force, idx, downloads, exc, err, obs, lastSynced, owed>>

disk == <<files, enlil_file, etag_file, video, workdir>>

NoObs ==
  [status |-> "", wroteBody |-> FALSE, wroteEtag |-> FALSE, ret |-> "none",
   filesAtStart |-> {}, videoAtStart |-> 0, syncStart |-> {}, fetched |-> {},
   again |-> FALSE, synced |-> FALSE,
   purgeRan |-> FALSE, purgeBefore |-> {}, purgeFailed |-> {}, count |-> 0,
   entered |-> FALSE, staged |-> <<>>, encoder |-> "", thumbRan |-> FALSE]

Idle == pc \in {"idle", "done", "crashed"}

Init ==
  /\ files \in SUBSET InitNames
  /\ enlil_file = [exists |-> FALSE, valid |-> FALSE, data |-> <<>>]
  /\ etag_file = 0
  /\ video = 0
  /\ workdir = [exists |-> FALSE, links |-> {}]
  /\ remote \in [data : Manifests, tag : {1}]
  /\ updates = 0
  /\ pc = "idle"
  /\ runNo = 0
  /\ force = FALSE
  /\ idx = 1
  /\ downloads = <<>>
  /\ exc = FALSE
  /\ err = ""
  /\ obs = NoObs
  /\ lastSynced = [valid |-> FALSE, data |-> <<>>]
  /\ owed = 0

\* ------------------------------------------------------------- environment
\* The publisher replaces the manifest between two runs; the entity tag
\* changes with it. (Before the first run Init already ranges over every
\* manifest, after the last one nothing reads it.)
RemoteUpdate ==
  /\ Idle
  /\ 0 < runNo /\ runNo < MaxRuns
  /\ updates < MaxUpdates
  /\ \E m \in Manifests \ {remote.data} :
       remote' = [data |-> m, tag |-> remote.tag + 1]
  /\ updates' = updates + 1
  /\ owed' = 0
  /\ pc' = "idle"
  /\ force' = FALSE
  /\ idx' = 1
  /\ downloads' = <<>>
  /\ exc' = FALSE
  /\ err' = ""
  /\ obs' = [NoObs EXCEPT !.filesAtStart = files, !.videoAtStart = video]
  /\ UNCHANGED <<disk, runNo, lastSynced>>

\* -------------------------------------------------------------------- main
\* main() is started, with or without --force.
Start ==
  /\ Idle
  /\ runNo < MaxRuns
  /\ \E f \in BOOLEAN :
       /\ force' = f
       /\ owed' = IF f THEN 0 ELSE owed
  /\ runNo' = runNo + 1
  /\ pc' = "fetch"
  /\ idx' = 1
  /\ downloads' = <<>>
  /\ exc' = FALSE
  /\ err' = ""
  /\ obs' = [NoObs EXCEPT !.filesAtStart = files, !.videoAtStart = video]
  /\ UNCHANGED <<disk, remote, updates, lastSynced>>

\* A gate that lets every run through.
MainGateAlways(ret, f) == TRUE

\* The condition of main's if: retrieve_files(...) or opts.force.
MainGate(ret, f) == ret \/ f

\* download_with_etag's return value after a 200 response.
FreshReturn(hasEtag) == hasEtag

\* What urlopen and response.read() yield for a request carrying tag `sent`
\* (0: no If-None-Match header). "error": urlopen raises. "cut": the body
\* breaks off in response.read(), after open(filename, "wb") emptied the file.
Answers(sent) ==
  IF sent # 0 /\ sent = remote.tag THEN {"304", "error"}
  ELSE {"200+etag", "200", "error", "cut"}

\* retrieve_files up to its loop: download_with_etag and the early return.
download_with_etag ==
  /\ pc = "fetch"
  /\ \E answer \in Answers(etag_file) :
       IF answer \in {"error", "cut"} THEN
         /\ pc' = "crashed"
         /\ err' = "network"
         /\ obs' = [obs EXCEPT !.status = answer]
         /\ enlil_file' =
              IF answer = "cut" THEN [exists |-> TRUE, valid |-> FALSE, data |-> <<>>]
              ELSE enlil_file
         /\ UNCHANGED <<etag_file, lastSynced>>
       ELSE IF answer = "304" THEN
         /\ pc' = IF MainGate(FALSE, force) THEN "purge" ELSE "done"
         /\ obs' = [obs EXCEPT !.status = answer, !.ret = "false"]
         /\ UNCHANGED <<enlil_file, etag_file, err, lastSynced>>
       ELSE
         LET hasEtag == answer = "200+etag"
             ret == FreshReturn(hasEtag)
         IN /\ enlil_file' = [exists |-> TRUE, valid |-> TRUE, data |-> remote.data]
            /\ etag_file' = IF hasEtag THEN remote.tag ELSE etag_file
            /\ lastSynced' =
                 IF lastSynced.data = remote.data THEN lastSynced
                 ELSE [valid |-> FALSE, data |-> <<>>]
            /\ obs' = [obs EXCEPT !.status = answer, !.wroteBody = TRUE,
                                  !.wroteEtag = hasEtag,
                                  !.ret = IF ret THEN "true" ELSE "false",
                                  !.syncStart = files]
            /\ pc' = IF ret THEN "sync"
                     ELSE IF MainGate(FALSE, force) THEN "purge" ELSE "done"
            /\ UNCHANGED err
  /\ UNCHANGED <<files, video, workdir, remote, updates, runNo, force,
                 idx, downloads, exc, owed>>

\* retrieve_image's presence check.
AlreadyThere(name, dir) == name \in dir

\* One turn of retrieve_files' loop: retrieve_image on entry idx.
retrieve_image ==
  /\ pc = "sync"
  /\ idx <= Len(enlil_file.data)
  /\ LET name == PathName(enlil_file.data[idx])
     IN IF AlreadyThere(name, files) THEN
          /\ downloads' = Append(downloads, FALSE)
          /\ idx' = idx + 1
          /\ UNCHANGED <<files, pc, err, obs, owed>>
        ELSE
          \E outcome \in {"saved", "error", "partial"} :
            IF outcome = "saved" THEN
              /\ files' = files \cup {name}
              /\ downloads' = Append(downloads, TRUE)
              /\ idx' = idx + 1
              /\ obs' = [obs EXCEPT !.fetched = @ \cup {name}]
              /\ UNCHANGED <<pc, err, owed>>
            ELSE
              \* urlretrieve or add_margin raises, before or after the file
              \* was created
              /\ files' = IF outcome = "partial" THEN files \cup {name} ELSE files
              /\ pc' = "crashed"
              /\ err' = "network"
              /\ owed' = IF obs.wroteEtag /\ ~force THEN runNo ELSE owed
              /\ UNCHANGED <<downloads, idx, obs>>
  /\ UNCHANGED <<enlil_file, etag_file, video, workdir, remote, updates,
                 runNo, force, exc, lastSynced>>

any(s) == \E i \in DOMAIN s : s[i]

\* The end of retrieve_files' loop: return any(downloads), and main's if.
retrieve_files ==
  /\ pc = "sync"
  /\ idx > Len(enlil_file.data)
  /\ pc' = IF MainGate(any(downloads), force) THEN "purge" ELSE "done"
  /\ obs' = [obs EXCEPT !.synced = TRUE,
                        !.again = lastSynced.valid /\ lastSynced.data = enlil_file.data]
  /\ lastSynced' = [valid |-> TRUE, data |-> enlil_file.data]
  /\ UNCHANGED <<disk, remote, updates, runNo, force, idx, downloads, exc, err, owed>>

\* A purge that forgets the startswith('enlil_com') filter.
StaleAnyName(dir, data) == dir \ {Basename(data[i]) : i \in DOMAIN data}

\* purge: the names it tries to delete.
Stale(dir, data) ==
  {n \in dir : StartsWith(n, ENLIL_COM)} \ {Basename(data[i]) : i \in DOMAIN data}

purge ==
  /\ pc = "purge"
  /\ IF ~(enlil_file.exists /\ enlil_file.valid) THEN
       \* open(enlil_file) or json.load raises
       /\ pc' = "crashed"
       /\ err' = "manifest"
       /\ UNCHANGED <<files, obs>>
     ELSE
       \E failed \in SUBSET Stale(files, enlil_file.data) :
         LET gone == Stale(files, enlil_file.data) \ failed
         IN /\ files' = files \ gone
            /\ obs' = [obs EXCEPT !.purgeRan = TRUE, !.purgeBefore = files,
                                  !.purgeFailed = failed,
                                  !.count = Cardinality(gone)]
            /\ pc' = "enter"
            /\ UNCHANGED err
  /\ UNCHANGED <<enlil_file, etag_file, video, workdir, remote, updates,
                 runNo, force, idx, downloads, exc, lastSynced, owed>>

\* Workdir.__enter__: mkdir.
WorkdirEnter ==
  /\ pc = "enter"
  /\ \E made \in BOOLEAN :
       IF made /\ ~workdir.exists THEN
         /\ workdir' = [exists |-> TRUE, links |-> {}]
         /\ obs' = [obs EXCEPT !.entered = TRUE]
         /\ pc' = "stage"
         /\ UNCHANGED err
       ELSE
         /\ pc' = "crashed"
         /\ err' = "mkdir"
         /\ UNCHANGED <<workdir, obs>>
  /\ UNCHANGED <<files, enlil_file, etag_file, video, remote, updates,
                 runNo, force, idx, downloads, exc, lastSynced, owed>>

\* select_files: the sorted *.jpg of target_dir.
select_files(dir) == SortedSeq({n \in dir : EndsWith(n, JPG)})

\* create_links: the links made for the first k files of the list.
create_links(file_list, k) == {<<LinkName(i), file_list[i]>> : i \in 1..k}

\* The body of animate's with block up to mk_video; it may be cut short by an
\* exception or an interrupt after any number of links.
Stage ==
  /\ pc = "stage"
  /\ LET file_list == select_files(files)
     IN \E k \in 0..(Len(file_list) + 1) :
          /\ workdir' = [workdir EXCEPT !.links = create_links(file_list, IF k > Len(file_list) THEN Len(file_list) ELSE k)]
          /\ exc' = (k <= Len(file_list))
          /\ pc' = IF k <= Len(file_list) THEN "exit" ELSE "video"
          /\ obs' = [obs EXCEPT !.staged = file_list]
  /\ UNCHANGED <<files, enlil_file, etag_file, video, remote, updates,
                 runNo, force, idx, downloads, err, lastSynced, owed>>

\* A mk_video that skips the returncode test.
PublishUnchecked(outcome) == outcome \in {"ok", "fail"}

\* mk_video: whether the temporary output is renamed over video_file.
Publish(outcome) == outcome = "ok"

\* "absent": ffmpeg is not on the path; "fail" / "ok": its returncode;
\* "raise": an interrupt or an I/O error ends mk_video with an exception.
mk_video ==
  /\ pc = "video"
  /\ \E outcome \in {"absent", "fail", "ok", "raise"} :
       /\ video' = IF Publish(outcome) THEN runNo ELSE video
       /\ exc' = (outcome = "raise")
       /\ obs' = [obs EXCEPT !.encoder = outcome]
  /\ pc' = "exit"
  /\ UNCHANGED <<files, enlil_file, etag_file, workdir, remote, updates,
                 runNo, force, idx, downloads, err, lastSynced, owed>>

\* An __exit__ that cleans up only when the block ended normally.
ExitRemovesOnSuccess(raised) == ~raised

\* Workdir.__exit__: whether the staging directory is removed.
ExitRemoves(raised) == TRUE

WorkdirExit ==
  /\ pc = "exit"
  /\ workdir' = IF ExitRemoves(exc) THEN [exists |-> FALSE, links |-> {}] ELSE workdir
  /\ pc' = IF exc THEN "crashed" ELSE "thumb"
  /\ err' = IF exc THEN "animate" ELSE err
  /\ UNCHANGED <<files, enlil_file, etag_file, video, remote, updates,
                 runNo, force, idx, downloads, exc, obs, lastSynced, owed>>

\* mk_thumbnail's candidates: glob('enlil_*.jpg').
Candidates(dir) == {n \in dir : StartsWith(n, ENLIL_) /\ EndsWith(n, JPG) /\ Len(n) >= Len(ENLIL_) + Len(JPG)}

\* mk_thumbnail: pop() of the candidates sorted by st_ctime, saved as
\* latest.png (only the file's presence is tracked, not its pixels).
mk_thumbnail ==
  /\ pc = "thumb"
  /\ IF Candidates(files) = {} THEN
       \* enlil_files.pop() raises IndexError
       /\ pc' = "crashed"
       /\ err' = "IndexError"
       /\ UNCHANGED <<files, obs>>
     ELSE
       /\ files' = files \cup {LATEST}
       /\ obs' = [obs EXCEPT !.thumbRan = TRUE]
       /\ pc' = "done"
       /\ UNCHANGED err
  /\ UNCHANGED <<enlil_file, etag_file, video, workdir, remote, updates,
                 runNo, force, idx, downloads, exc, lastSynced, owed>>

Next ==
  \/ RemoteUpdate
  \/ Start
  \/ download_with_etag
  \/ retrieve_image
  \/ retrieve_files
  \/ purge
  \/ WorkdirEnter
  \/ Stage
  \/ mk_video
  \/ WorkdirExit
  \/ mk_thumbnail

Spec == Init /\ [][Next]_vars

\* ------------------------------------------------------------------ claims
\* The basenames the manifest on disk lists (os.path.basename of each url).
Listed == {Basename(enlil_file.data[i]) : i \in DOMAIN enlil_file.data}

Tracked(dir) == {n \in dir : StartsWith(n, ENLIL_COM)}

\* The state right after retrieve_files returned to main.
AfterSync == pc \in {"purge", "done"} /\ ~obs.purgeRan /\ ~obs.thumbRan

\* C1: when a fresh manifest was obtained and synchronization ended without a
\* network error, every entry's basename is a file of target_dir; a file that
\* was already present is not downloaded; a second synchronization against the
\* same manifest downloads nothing and reports no new image.
C1_SyncComplete ==
  /\ (obs.wroteBody /\ AfterSync) =>
       \A i \in DOMAIN enlil_file.data : PathName(enlil_file.data[i]) \in files
  /\ obs.fetched \cap obs.syncStart = {}
  /\ obs.again => (obs.fetched = {} /\ ~any(downloads))

\* C2: after a purge in which no deletion failed, the tracked files are exactly
\* the tracked files present before that the manifest lists; the other files
\* are untouched; the reported count is the number of files removed.
C2_PurgeExact ==
  (obs.purgeRan /\ pc = "enter") =>
    /\ obs.purgeFailed = {} => Tracked(files) = Tracked(obs.purgeBefore) \cap Listed
    /\ files \ Tracked(files) = obs.purgeBefore \ Tracked(obs.purgeBefore)
    /\ files \subseteq obs.purgeBefore
    /\ obs.count = Cardinality(obs.purgeBefore \ files)

\* C2's case: a purge without failures removed a stale tracked file, kept a
\* listed one and met a file outside the prefix.
C2_Witness ==
  /\ obs.purgeRan /\ pc = "enter" /\ obs.purgeFailed = {}
  /\ obs.count = 1
  /\ Img9 \in obs.purgeBefore /\ Img9 \notin files
  /\ Img1 \in files /\ Other \in files

\* C3: the staging directory exists only inside animate's with block; once
\* animate has returned or raised it does not exist.
C3_WorkdirTransient == workdir.exists => pc \in {"stage", "video", "exit"}

\* C3's case: animate raised out of its with block and the directory is gone.
C3_Witness ==
  /\ pc = "crashed" /\ err = "animate" /\ obs.entered
  /\ obs.staged # <<>>
  /\ ~workdir.exists

\* C4: the published video changes during a run only when the encoder was
\* found and exited with status zero, and then it is this run's output; when
\* the encoder is absent or exits nonzero the published video is what it was
\* and mk_video raises nothing.
C4_AllOrNothing ==
  /\ video # obs.videoAtStart => obs.encoder = "ok"
  /\ obs.encoder = "ok" => video = runNo
  /\ obs.encoder \in {"absent", "fail"} => (video = obs.videoAtStart /\ ~exc)

\* C4's case: the encoder failed in a run that started with a published video.
C4_Witness ==
  /\ obs.encoder = "fail" /\ obs.videoAtStart # 0
  /\ pc = "done" /\ video = obs.videoAtStart

\* C5: after a 304 without --force nothing is downloaded, deleted, staged or
\* published and the run is over; with --force the run goes on to purge,
\* animate and mk_thumbnail.
C5_NotModified ==
  /\ (obs.status = "304" /\ ~force) =>
       /\ pc = "done"
       /\ files = obs.filesAtStart /\ video = obs.videoAtStart
       /\ downloads = <<>> /\ obs.fetched = {}
       /\ ~obs.purgeRan /\ ~obs.entered /\ ~workdir.exists /\ ~obs.thumbRan
  /\ (obs.status = "304" /\ force) =>
       /\ pc = "purge" \/ obs.purgeRan \/ (pc = "crashed" /\ err = "manifest")
       /\ pc = "done" => (obs.purgeRan /\ obs.entered /\ obs.thumbRan)

\* C5's case: a 304 without --force while a stale tracked file is on disk.
C5_Witness ==
  /\ obs.status = "304" /\ ~force /\ pc = "done"
  /\ Stale(files, enlil_file.data) # {}

\* C6: download_with_etag returns true exactly when it wrote the manifest
\* body, false only after a 304; the sidecar is written only together with
\* the body and a validator.
C6_ReturnSignalsFresh ==
  obs.ret # "none" =>
    /\ (obs.ret = "true") <=> obs.wroteBody
    /\ obs.ret = "false" => obs.status = "304"
    /\ obs.wroteEtag => (obs.wroteBody /\ obs.status = "200+etag")

\* C7: a run that reaches mk_thumbnail with no file matching enlil_*.jpg does
\* not end with an unhandled error.
C7_ThumbnailNoCrash ==
  (Candidates(files) = {} /\ obs.entered /\ pc = "crashed") => err # "IndexError"

RECURSIVE Value(_)
Value(digits) ==
  IF digits = <<>> THEN 0
  ELSE 10 * Value(SubSeq(digits, 1, Len(digits) - 1))
       + (CHOOSE d \in 0..9 : Digit[d + 1] = digits[Len(digits)])

\* name is 'enlil-NNNNNN.jpg' with NNNNNN the six digits of i.
IsFrame(name, i) ==
  /\ Len(name) = Len(LINK_PREFIX) + WIDTH + Len(JPG)
  /\ StartsWith(name, LINK_PREFIX) /\ EndsWith(name, JPG)
  /\ Value(SubSeq(name, Len(LINK_PREFIX) + 1, Len(LINK_PREFIX) + WIDTH)) = i

\* C8: while the encoder runs the staging directory holds exactly one link
\* per retained image (a local file the manifest lists), the i-th in
\* lexicographic order under the six-digit name of i.
C8_StagedRetained ==
  pc = "video" =>
    LET retained == SortedSeq(files \cap Listed)
    IN /\ Cardinality(workdir.links) = Len(retained)
       /\ \A i \in DOMAIN retained :
            \E l \in workdir.links : IsFrame(l[1], i) /\ l[2] = retained[i]

\* C9: a run without --force that obtained a fresh manifest and ended without
\* error leaves no tracked file that the manifest does not list.
C9_NoStaleAfterFresh ==
  (pc = "done" /\ obs.wroteBody /\ ~force) => Tracked(files) \subseteq Listed

\* C10: once a run has persisted manifest and tag and aborted on an image
\* download, a later run that ends without error (remote unchanged, no
\* --force) leaves every entry of the manifest on disk.
C10_Converges ==
  (owed # 0 /\ runNo > owed /\ pc = "done") =>
    \A i \in DOMAIN remote.data : PathName(remote.data[i]) \in files

====
